---- MODULE Spec2Model ----
(***************************************************************************)
(* Model of src/primitive.rs: the primitive catalog built by the           *)
(* primitive! macro, its lookup tables (name, ascii, unicode, from_simple, *)
(* from_unicode, from_name, args, outputs, inverse) and the dispatcher     *)
(* Primitive::run acting on the value stack of a CallEnv.                  *)
(*                                                                         *)
(* Conventions.  Option<T> is a set: None is {} and Some(x) is {x}.        *)
(* A &str is a sequence of characters; a character is a one-letter string, *)
(* or "Uxxxx" (its code point) when it is not ASCII.                       *)
(***************************************************************************)
EXTENDS Integers, Sequences, FiniteSets, TLC

VARIABLES
  lookup,   \* catalog query being answered ("none" before any query)
  input,    \* the query's argument
  answer,   \* the query's result, an Option
  back,     \* the reverse lookup applied to the answer, an Option
  prim,     \* tag of the primitive handed to run ("" before the call)
  stack,    \* the CallEnv value stack, bottom first
  stack0,   \* the stack as it was when run was entered
  calls,    \* log of the env.call() invocations made by run, in order
  status,   \* "ready" before run, then "ok" (Ok(())) or "err" (Err(e))
  msg       \* message of the returned error

vars == <<lookup, input, answer, back, prim, stack, stack0, calls, status, msg>>

catalogVars == <<lookup, input, answer, back>>
runVars == <<prim, stack, stack0, calls, status, msg>>

----------------------------------------------------------------------------
(* The catalog: one row per macro line, in source order.  args is the      *)
(* leading literal, hasOut/out the parenthesised output count, margs the   *)
(* { modifier: n } count, glyph the character after +.                     *)

CATALOG ==
  <<
    [tag |-> "Dup", name |-> {<<"d", "u", "p", "l", "i", "c", "a", "t", "e">>}, ascii |-> {}, glyph |-> {"U002E"}, args |-> {1}, hasOut |-> TRUE, out |-> {2}, margs |-> {}],
    [tag |-> "Over", name |-> {<<"o", "v", "e", "r">>}, ascii |-> {}, glyph |-> {"U002C"}, args |-> {2}, hasOut |-> TRUE, out |-> {3}, margs |-> {}],
    [tag |-> "Flip", name |-> {<<"f", "l", "i", "p">>}, ascii |-> {}, glyph |-> {"U007E"}, args |-> {2}, hasOut |-> TRUE, out |-> {2}, margs |-> {}],
    [tag |-> "Pop", name |-> {<<"p", "o", "p">>}, ascii |-> {}, glyph |-> {"U003B"}, args |-> {1}, hasOut |-> TRUE, out |-> {0}, margs |-> {}],
    [tag |-> "Unpack", name |-> {<<"u", "n", "p", "a", "c", "k">>}, ascii |-> {}, glyph |-> {"U2294"}, args |-> {1}, hasOut |-> TRUE, out |-> {}, margs |-> {}],
    [tag |-> "Sign", name |-> {<<"s", "i", "g", "n">>}, ascii |-> {}, glyph |-> {"U0024"}, args |-> {1}, hasOut |-> FALSE, out |-> {}, margs |-> {}],
    [tag |-> "Not", name |-> {<<"n", "o", "t">>}, ascii |-> {}, glyph |-> {"U00AC"}, args |-> {1}, hasOut |-> FALSE, out |-> {}, margs |-> {}],
    [tag |-> "Neg", name |-> {<<"n", "e", "g", "a", "t", "e">>}, ascii |-> {"Backtick"}, glyph |-> {"U00AF"}, args |-> {1}, hasOut |-> FALSE, out |-> {}, margs |-> {}],
    [tag |-> "Abs", name |-> {<<"a", "b", "s", "o", "l", "u", "t", "e">>}, ascii |-> {}, glyph |-> {"U2335"}, args |-> {1}, hasOut |-> FALSE, out |-> {}, margs |-> {}],
    [tag |-> "Sqrt", name |-> {<<"s", "q", "r", "t">>}, ascii |-> {}, glyph |-> {"U221A"}, args |-> {1}, hasOut |-> FALSE, out |-> {}, margs |-> {}],
    [tag |-> "Sin", name |-> {<<"s", "i", "n", "e">>}, ascii |-> {}, glyph |-> {}, args |-> {1}, hasOut |-> FALSE, out |-> {}, margs |-> {}],
    [tag |-> "Cos", name |-> {<<"c", "o", "s", "i", "n", "e">>}, ascii |-> {}, glyph |-> {}, args |-> {1}, hasOut |-> FALSE, out |-> {}, margs |-> {}],
    [tag |-> "Asin", name |-> {}, ascii |-> {}, glyph |-> {}, args |-> {1}, hasOut |-> FALSE, out |-> {}, margs |-> {}],
    [tag |-> "Acos", name |-> {}, ascii |-> {}, glyph |-> {}, args |-> {1}, hasOut |-> FALSE, out |-> {}, margs |-> {}],
    [tag |-> "Floor", name |-> {<<"f", "l", "o", "o", "r">>}, ascii |-> {}, glyph |-> {"U230A"}, args |-> {1}, hasOut |-> FALSE, out |-> {}, margs |-> {}],
    [tag |-> "Ceil", name |-> {<<"c", "e", "i", "l", "i", "n", "g">>}, ascii |-> {}, glyph |-> {"U2308"}, args |-> {1}, hasOut |-> FALSE, out |-> {}, margs |-> {}],
    [tag |-> "Round", name |-> {<<"r", "o", "u", "n", "d">>}, ascii |-> {}, glyph |-> {"U2045"}, args |-> {1}, hasOut |-> FALSE, out |-> {}, margs |-> {}],
    [tag |-> "Eq", name |-> {<<"e", "q", "u", "a", "l", "s">>}, ascii |-> {"Equal"}, glyph |-> {}, args |-> {2}, hasOut |-> FALSE, out |-> {}, margs |-> {}],
    [tag |-> "Ne", name |-> {<<"n", "o", "t", " ", "e", "q", "u", "a", "l", "s">>}, ascii |-> {"BangEqual"}, glyph |-> {"U2260"}, args |-> {2}, hasOut |-> FALSE, out |-> {}, margs |-> {}],
    [tag |-> "Lt", name |-> {<<"l", "e", "s", "s", " ", "t", "h", "a", "n">>}, ascii |-> {}, glyph |-> {"U003C"}, args |-> {2}, hasOut |-> FALSE, out |-> {}, margs |-> {}],
    [tag |-> "Le", name |-> {<<"l", "e", "s", "s", " ", "o", "r", " ", "e", "q", "u", "a", "l">>}, ascii |-> {"LessEqual"}, glyph |-> {"U2264"}, args |-> {2}, hasOut |-> FALSE, out |-> {}, margs |-> {}],
    [tag |-> "Gt", name |-> {<<"g", "r", "e", "a", "t", "e", "r", " ", "t", "h", "a", "n">>}, ascii |-> {}, glyph |-> {"U003E"}, args |-> {2}, hasOut |-> FALSE, out |-> {}, margs |-> {}],
    [tag |-> "Ge", name |-> {<<"g", "r", "e", "a", "t", "e", "r", " ", "o", "r", " ", "e", "q", "u", "a", "l">>}, ascii |-> {"GreaterEqual"}, glyph |-> {"U2265"}, args |-> {2}, hasOut |-> FALSE, out |-> {}, margs |-> {}],
    [tag |-> "Add", name |-> {<<"a", "d", "d">>}, ascii |-> {}, glyph |-> {"U002B"}, args |-> {2}, hasOut |-> FALSE, out |-> {}, margs |-> {}],
    [tag |-> "Sub", name |-> {<<"s", "u", "b", "t", "r", "a", "c", "t">>}, ascii |-> {}, glyph |-> {"U002D"}, args |-> {2}, hasOut |-> FALSE, out |-> {}, margs |-> {}],
    [tag |-> "Mul", name |-> {<<"m", "u", "l", "t", "i", "p", "l", "y">>}, ascii |-> {"Star"}, glyph |-> {"U00D7"}, args |-> {2}, hasOut |-> FALSE, out |-> {}, margs |-> {}],
    [tag |-> "Div", name |-> {<<"d", "i", "v", "i", "d", "e">>}, ascii |-> {"Percent"}, glyph |-> {"U00F7"}, args |-> {2}, hasOut |-> FALSE, out |-> {}, margs |-> {}],
    [tag |-> "Mod", name |-> {<<"m", "o", "d", "u", "l", "u", "s">>}, ascii |-> {}, glyph |-> {"U25FF"}, args |-> {2}, hasOut |-> FALSE, out |-> {}, margs |-> {}],
    [tag |-> "Pow", name |-> {<<"p", "o", "w", "e", "r">>}, ascii |-> {}, glyph |-> {"U207F"}, args |-> {2}, hasOut |-> FALSE, out |-> {}, margs |-> {}],
    [tag |-> "Root", name |-> {}, ascii |-> {}, glyph |-> {}, args |-> {2}, hasOut |-> FALSE, out |-> {}, margs |-> {}],
    [tag |-> "Min", name |-> {<<"m", "i", "n", "i", "m", "u", "m">>}, ascii |-> {}, glyph |-> {"U21A7"}, args |-> {2}, hasOut |-> FALSE, out |-> {}, margs |-> {}],
    [tag |-> "Max", name |-> {<<"m", "a", "x", "i", "m", "u", "m">>}, ascii |-> {}, glyph |-> {"U21A5"}, args |-> {2}, hasOut |-> FALSE, out |-> {}, margs |-> {}],
    [tag |-> "Atan", name |-> {<<"a", "t", "a", "n", "g", "e", "n", "t">>}, ascii |-> {}, glyph |-> {}, args |-> {2}, hasOut |-> FALSE, out |-> {}, margs |-> {}],
    [tag |-> "Len", name |-> {<<"l", "e", "n", "g", "t", "h">>}, ascii |-> {}, glyph |-> {"U21C0"}, args |-> {1}, hasOut |-> FALSE, out |-> {}, margs |-> {}],
    [tag |-> "Rank", name |-> {<<"r", "a", "n", "k">>}, ascii |-> {}, glyph |-> {"U2E2B"}, args |-> {1}, hasOut |-> FALSE, out |-> {}, margs |-> {}],
    [tag |-> "Shape", name |-> {<<"s", "h", "a", "p", "e">>}, ascii |-> {}, glyph |-> {"U25B3"}, args |-> {1}, hasOut |-> FALSE, out |-> {}, margs |-> {}],
    [tag |-> "Range", name |-> {<<"r", "a", "n", "g", "e">>}, ascii |-> {}, glyph |-> {"U21E1"}, args |-> {1}, hasOut |-> FALSE, out |-> {}, margs |-> {}],
    [tag |-> "First", name |-> {<<"f", "i", "r", "s", "t">>}, ascii |-> {}, glyph |-> {"U22A2"}, args |-> {1}, hasOut |-> FALSE, out |-> {}, margs |-> {}],
    [tag |-> "Reverse", name |-> {<<"r", "e", "v", "e", "r", "s", "e">>}, ascii |-> {}, glyph |-> {"U21CC"}, args |-> {1}, hasOut |-> FALSE, out |-> {}, margs |-> {}],
    [tag |-> "Enclose", name |-> {<<"e", "n", "c", "l", "o", "s", "e">>}, ascii |-> {}, glyph |-> {"U2293"}, args |-> {1}, hasOut |-> FALSE, out |-> {}, margs |-> {}],
    [tag |-> "Normalize", name |-> {<<"n", "o", "r", "m", "a", "l", "i", "z", "e">>}, ascii |-> {}, glyph |-> {"U25A1"}, args |-> {1}, hasOut |-> FALSE, out |-> {}, margs |-> {}],
    [tag |-> "Deshape", name |-> {<<"d", "e", "s", "h", "a", "p", "e">>}, ascii |-> {}, glyph |-> {"U266D"}, args |-> {1}, hasOut |-> FALSE, out |-> {}, margs |-> {}],
    [tag |-> "Transpose", name |-> {<<"t", "r", "a", "n", "s", "p", "o", "s", "e">>}, ascii |-> {}, glyph |-> {"U2349"}, args |-> {1}, hasOut |-> FALSE, out |-> {}, margs |-> {}],
    [tag |-> "Sort", name |-> {<<"s", "o", "r", "t">>}, ascii |-> {}, glyph |-> {"U2227"}, args |-> {1}, hasOut |-> FALSE, out |-> {}, margs |-> {}],
    [tag |-> "Grade", name |-> {<<"g", "r", "a", "d", "e">>}, ascii |-> {}, glyph |-> {"U234B"}, args |-> {1}, hasOut |-> FALSE, out |-> {}, margs |-> {}],
    [tag |-> "Indices", name |-> {<<"i", "n", "d", "i", "c", "e", "s">>}, ascii |-> {}, glyph |-> {"U2298"}, args |-> {1}, hasOut |-> FALSE, out |-> {}, margs |-> {}],
    [tag |-> "Classify", name |-> {<<"c", "l", "a", "s", "s", "i", "f", "y">>}, ascii |-> {}, glyph |-> {"U229B"}, args |-> {1}, hasOut |-> FALSE, out |-> {}, margs |-> {}],
    [tag |-> "Deduplicate", name |-> {<<"d", "e", "d", "u", "p", "l", "i", "c", "a", "t", "e">>}, ascii |-> {}, glyph |-> {"U229D"}, args |-> {1}, hasOut |-> FALSE, out |-> {}, margs |-> {}],
    [tag |-> "Match", name |-> {<<"m", "a", "t", "c", "h">>}, ascii |-> {}, glyph |-> {"U2245"}, args |-> {2}, hasOut |-> FALSE, out |-> {}, margs |-> {}],
    [tag |-> "NoMatch", name |-> {<<"n", "o", "t", "m", "a", "t", "c", "h">>}, ascii |-> {}, glyph |-> {"U2247"}, args |-> {2}, hasOut |-> FALSE, out |-> {}, margs |-> {}],
    [tag |-> "Join", name |-> {<<"j", "o", "i", "n">>}, ascii |-> {}, glyph |-> {"U224D"}, args |-> {2}, hasOut |-> FALSE, out |-> {}, margs |-> {}],
    [tag |-> "Pair", name |-> {<<"p", "a", "i", "r">>}, ascii |-> {}, glyph |-> {"U2687"}, args |-> {2}, hasOut |-> FALSE, out |-> {}, margs |-> {}],
    [tag |-> "Couple", name |-> {<<"c", "o", "u", "p", "l", "e">>}, ascii |-> {}, glyph |-> {"U229F"}, args |-> {2}, hasOut |-> FALSE, out |-> {}, margs |-> {}],
    [tag |-> "Pick", name |-> {<<"p", "i", "c", "k">>}, ascii |-> {}, glyph |-> {"U22A1"}, args |-> {2}, hasOut |-> FALSE, out |-> {}, margs |-> {}],
    [tag |-> "Select", name |-> {<<"s", "e", "l", "e", "c", "t">>}, ascii |-> {}, glyph |-> {"U228F"}, args |-> {2}, hasOut |-> FALSE, out |-> {}, margs |-> {}],
    [tag |-> "Take", name |-> {<<"t", "a", "k", "e">>}, ascii |-> {}, glyph |-> {"U2199"}, args |-> {2}, hasOut |-> FALSE, out |-> {}, margs |-> {}],
    [tag |-> "Drop", name |-> {<<"d", "r", "o", "p">>}, ascii |-> {}, glyph |-> {"U2198"}, args |-> {2}, hasOut |-> FALSE, out |-> {}, margs |-> {}],
    [tag |-> "Reshape", name |-> {<<"r", "e", "s", "h", "a", "p", "e">>}, ascii |-> {}, glyph |-> {"U21AF"}, args |-> {2}, hasOut |-> FALSE, out |-> {}, margs |-> {}],
    [tag |-> "Rotate", name |-> {<<"r", "o", "t", "a", "t", "e">>}, ascii |-> {}, glyph |-> {"U21BB"}, args |-> {2}, hasOut |-> FALSE, out |-> {}, margs |-> {}],
    [tag |-> "Windows", name |-> {<<"w", "i", "n", "d", "o", "w", "s">>}, ascii |-> {}, glyph |-> {"U25EB"}, args |-> {2}, hasOut |-> FALSE, out |-> {}, margs |-> {}],
    [tag |-> "Replicate", name |-> {<<"r", "e", "p", "l", "i", "c", "a", "t", "e">>}, ascii |-> {}, glyph |-> {"U2021"}, args |-> {2}, hasOut |-> FALSE, out |-> {}, margs |-> {}],
    [tag |-> "Member", name |-> {<<"m", "e", "m", "b", "e", "r">>}, ascii |-> {}, glyph |-> {"U2208"}, args |-> {2}, hasOut |-> FALSE, out |-> {}, margs |-> {}],
    [tag |-> "Group", name |-> {<<"g", "r", "o", "u", "p">>}, ascii |-> {}, glyph |-> {"U2295"}, args |-> {2}, hasOut |-> FALSE, out |-> {}, margs |-> {}],
    [tag |-> "IndexOf", name |-> {<<"i", "n", "d", "e", "x", "o", "f">>}, ascii |-> {}, glyph |-> {"U2299"}, args |-> {2}, hasOut |-> FALSE, out |-> {}, margs |-> {}],
    [tag |-> "Put", name |-> {}, ascii |-> {}, glyph |-> {}, args |-> {3}, hasOut |-> FALSE, out |-> {}, margs |-> {}],
    [tag |-> "Reduce", name |-> {<<"r", "e", "d", "u", "c", "e">>}, ascii |-> {}, glyph |-> {"U002F"}, args |-> {}, hasOut |-> FALSE, out |-> {}, margs |-> {1}],
    [tag |-> "Fold", name |-> {<<"f", "o", "l", "d">>}, ascii |-> {}, glyph |-> {"U233F"}, args |-> {}, hasOut |-> FALSE, out |-> {}, margs |-> {1}],
    [tag |-> "Scan", name |-> {<<"s", "c", "a", "n">>}, ascii |-> {}, glyph |-> {"U005C"}, args |-> {}, hasOut |-> FALSE, out |-> {}, margs |-> {1}],
    [tag |-> "Each", name |-> {<<"e", "a", "c", "h">>}, ascii |-> {}, glyph |-> {"U2E2A"}, args |-> {}, hasOut |-> FALSE, out |-> {}, margs |-> {1}],
    [tag |-> "Cells", name |-> {<<"c", "e", "l", "l", "s">>}, ascii |-> {}, glyph |-> {"U2261"}, args |-> {}, hasOut |-> FALSE, out |-> {}, margs |-> {1}],
    [tag |-> "Table", name |-> {<<"t", "a", "b", "l", "e">>}, ascii |-> {}, glyph |-> {"U229E"}, args |-> {}, hasOut |-> FALSE, out |-> {}, margs |-> {1}],
    [tag |-> "Repeat", name |-> {<<"r", "e", "p", "e", "a", "t">>}, ascii |-> {}, glyph |-> {"U2365"}, args |-> {}, hasOut |-> FALSE, out |-> {}, margs |-> {1}],
    [tag |-> "Invert", name |-> {<<"i", "n", "v", "e", "r", "t">>}, ascii |-> {}, glyph |-> {"U21A9"}, args |-> {}, hasOut |-> FALSE, out |-> {}, margs |-> {1}],
    [tag |-> "Under", name |-> {<<"u", "n", "d", "e", "r">>}, ascii |-> {}, glyph |-> {"U235C"}, args |-> {}, hasOut |-> FALSE, out |-> {}, margs |-> {2}],
    [tag |-> "Try", name |-> {<<"t", "r", "y">>}, ascii |-> {}, glyph |-> {"U003F"}, args |-> {}, hasOut |-> FALSE, out |-> {}, margs |-> {2}],
    [tag |-> "Assert", name |-> {<<"a", "s", "s", "e", "r", "t">>}, ascii |-> {}, glyph |-> {"U0021"}, args |-> {2}, hasOut |-> FALSE, out |-> {}, margs |-> {}],
    [tag |-> "Nop", name |-> {<<"n", "o", "o", "p">>}, ascii |-> {}, glyph |-> {"U00B7"}, args |-> {0}, hasOut |-> FALSE, out |-> {}, margs |-> {}],
    [tag |-> "Call", name |-> {<<"c", "a", "l", "l">>}, ascii |-> {}, glyph |-> {"U003A"}, args |-> {1}, hasOut |-> TRUE, out |-> {}, margs |-> {}],
    [tag |-> "String", name |-> {<<"s", "t", "r", "i", "n", "g">>}, ascii |-> {}, glyph |-> {}, args |-> {1}, hasOut |-> FALSE, out |-> {}, margs |-> {}],
    [tag |-> "Parse", name |-> {<<"p", "a", "r", "s", "e", "n", "u", "m", "b", "e", "r">>}, ascii |-> {}, glyph |-> {}, args |-> {1}, hasOut |-> FALSE, out |-> {}, margs |-> {}],
    [tag |-> "Use", name |-> {<<"u", "s", "e">>}, ascii |-> {}, glyph |-> {}, args |-> {1}, hasOut |-> FALSE, out |-> {}, margs |-> {}],
    [tag |-> "Pi", name |-> {<<"p", "i">>}, ascii |-> {}, glyph |-> {"U03C0"}, args |-> {0}, hasOut |-> TRUE, out |-> {1}, margs |-> {}],
    [tag |-> "Infinity", name |-> {<<"i", "n", "f", "i", "n", "i", "t", "y">>}, ascii |-> {}, glyph |-> {"U221E"}, args |-> {0}, hasOut |-> TRUE, out |-> {1}, margs |-> {}]
  >>

\* A seeded catalog slip: Lt is given the glyph of Le.
CATALOG_SharedGlyph ==
  [i \in 1..Len(CATALOG) |->
     IF CATALOG[i].tag = "Lt" THEN [CATALOG[i] EXCEPT !.glyph = {"U2264"}]
     ELSE CATALOG[i]]

\* Primitive::ALL, plus the per-row metadata the macro's match arms read
ALL == CATALOG

Tags == {ALL[i].tag : i \in 1..Len(ALL)}

MinOf(S) == CHOOSE x \in S : \A y \in S : x <= y

\* The row of a primitive: a match on self takes its first arm
Row(p) == ALL[MinOf({i \in 1..Len(ALL) : ALL[i].tag = p})]

name(p) == Row(p).name

ascii(p) == Row(p).ascii

unicode(p) == Row(p).glyph

\* match s { Simple::$ascii => Some(Self::$name), ... _ => None }: first arm wins
from_simple(s) ==
  LET hits == {i \in 1..Len(ALL) : s \in ALL[i].ascii}
  IN IF hits = {} THEN {} ELSE {ALL[MinOf(hits)].tag}

\* match c { $character => Some(Self::$name), ... _ => None }: first arm wins
from_unicode(c) ==
  LET hits == {i \in 1..Len(ALL) : c \in ALL[i].glyph}
  IN IF hits = {} THEN {} ELSE {ALL[MinOf(hits)].tag}

is_modifier(p) == Row(p).margs # {}

modifier_args(p) == Row(p).margs

args(p) == Row(p).args

\* an explicit output count, else the catch-all arm Some(1)
outputs(p) == IF Row(p).hasOut THEN Row(p).out ELSE {1}

----------------------------------------------------------------------------
(* Primitive::inverse                                                      *)

inverse(p) ==
  CASE p = "Flip" -> {"Flip"}
    [] p = "Neg" -> {"Neg"}
    [] p = "Not" -> {"Not"}
    [] p = "Sin" -> {"Asin"}
    [] p = "Cos" -> {"Acos"}
    [] p = "Reverse" -> {"Reverse"}
    [] p = "Add" -> {"Sub"}
    [] p = "Sub" -> {"Add"}
    [] p = "Mul" -> {"Div"}
    [] p = "Div" -> {"Mul"}
    [] p = "Pow" -> {"Root"}
    [] p = "Root" -> {"Pow"}
    [] p = "Pick" -> {"Put"}
    [] OTHER -> {}

----------------------------------------------------------------------------
(* Primitive::from_name                                                    *)

UpperLetters ==
  <<"A", "B", "C", "D", "E", "F", "G", "H", "I", "J", "K", "L", "M",
    "N", "O", "P", "Q", "R", "S", "T", "U", "V", "W", "X", "Y", "Z">>

LowerLetters ==
  <<"a", "b", "c", "d", "e", "f", "g", "h", "i", "j", "k", "l", "m",
    "n", "o", "p", "q", "r", "s", "t", "u", "v", "w", "x", "y", "z">>

\* char::to_lowercase: A-Z, and the Kelvin sign U+212A whose lowercase is k;
\* U+03C0 (the letter pi) is already lowercase
LowerChar(c) ==
  IF \E i \in 1..Len(UpperLetters) : UpperLetters[i] = c
  THEN LowerLetters[CHOOSE i \in 1..Len(UpperLetters) : UpperLetters[i] = c]
  ELSE IF c = "U212A" THEN "k" ELSE c

\* str::to_lowercase
to_lowercase(s) == [i \in 1..Len(s) |-> LowerChar(s[i])]

\* bytes of a character in UTF-8
Utf8Len(c) == CASE c = "U03C0" -> 2 [] c = "U212A" -> 3 [] OTHER -> 1

RECURSIVE SumBytes(_, _)
SumBytes(s, i) == IF i > Len(s) THEN 0 ELSE Utf8Len(s[i]) + SumBytes(s, i + 1)

\* str::len: the length in bytes
len(s) == SumBytes(s, 1)

\* str::starts_with
starts_with(s, prefix) ==
  /\ Len(prefix) <= Len(s)
  /\ \A i \in 1..Len(prefix) : s[i] = prefix[i]

\* The I/O operations' names, kept by the I/O catalog outside this file
IoOps == << [tag |-> "Io(Print)", name |-> <<"p", "r", "i", "n", "t">>] >>

IoOp_from_name(s) ==
  LET hits == {i \in 1..Len(IoOps) : IoOps[i].name = s}
  IN IF hits = {} THEN {} ELSE {IoOps[MinOf(hits)].tag}

\* the rows the filter keeps, as ascending indices into ALL
Matching(lower) ==
  {i \in 1..Len(ALL) :
     \E n \in ALL[i].name : starts_with(to_lowercase(n), lower)}

\* from_name with the exact-match escape left out
from_name_NoExact(s) ==
  LET lower == to_lowercase(s)
      matching == Matching(lower)
  IN IF IoOp_from_name(lower) # {} THEN IoOp_from_name(lower)
     ELSE IF lower = <<"p", "i">> \/ lower = <<"U03C0">> THEN {"Pi"}
     ELSE IF len(s) < 3 THEN {}
     ELSE IF matching = {} THEN {}
     ELSE IF Cardinality(matching) = 1 THEN {ALL[MinOf(matching)].tag} ELSE {}

from_name(s) ==
  LET lower == to_lowercase(s)
      matching == Matching(lower)
      res == MinOf(matching)
      exact_match == \E n \in ALL[res].name : n = lower
  IN IF IoOp_from_name(lower) # {} THEN IoOp_from_name(lower)
     ELSE IF lower = <<"p", "i">> \/ lower = <<"U03C0">> THEN {"Pi"}
     ELSE IF len(s) < 3 THEN {}
     ELSE IF matching = {} THEN {}
     ELSE IF exact_match \/ Cardinality(matching) = 1
          THEN {ALL[res].tag} ELSE {}

----------------------------------------------------------------------------
(* Queries put to the catalog: each behaviour asks one query               *)

CanonicalNames == UNION {ALL[i].name : i \in 1..Len(ALL)}

Prefixes(s) == {SubSeq(s, 1, k) : k \in 1..Len(s)}

\* the same text typed with a capital first letter
Capitalized(s) ==
  [i \in 1..Len(s) |->
     IF i = 1 /\ \E j \in 1..Len(LowerLetters) : LowerLetters[j] = s[1]
     THEN UpperLetters[CHOOSE j \in 1..Len(LowerLetters) : LowerLetters[j] = s[1]]
     ELSE s[i]]

\* every prefix of every canonical name, as typed and capitalized, and a
\* few inputs that are no prefix, that are not ASCII, or that name an I/O op
NameInputs ==
  LET pre == UNION {Prefixes(n) : n \in CanonicalNames}
  IN pre \cup {Capitalized(s) : s \in pre}
         \cup { <<"U03C0">>, <<"p", "i", "e">>, <<"x", "y", "z">>, <<"r", "e", "x">>,
                <<"n", "o", "t", "x">>, <<"r", "a", "n", "U212A">>,
                <<"U212A", "i">>, <<"U03C0", "a">>, <<"p", "r", "i", "n", "t">>,
                <<"P", "R", "I", "N", "T">>, <<"p", "r", "i", "n">> }

Glyphs == UNION {ALL[i].glyph : i \in 1..Len(ALL)}

GlyphInputs == Glyphs \cup {"U0040", "U0061"}

\* the lexer's simple tokens: those the catalog uses, and two it does not
SimpleInputs == UNION {ALL[i].ascii : i \in 1..Len(ALL)} \cup {"Underscore", "Bar"}

None == {}

CatalogInit ==
  /\ lookup = "none"
  /\ input = <<>>
  /\ answer = None
  /\ back = None
  /\ prim = ""
  /\ stack = <<>>
  /\ stack0 = <<>>
  /\ calls = <<>>
  /\ status = "ready"
  /\ msg = <<>>

\* p.inverse(), and the inverse of what it returned
QueryInverse ==
  \E p \in Tags :
    /\ lookup = "none"
    /\ lookup' = "inverse"
    /\ input' = <<p>>
    /\ answer' = inverse(p)
    /\ back' = UNION {inverse(q) : q \in inverse(p)}
    /\ UNCHANGED runVars

\* Primitive::from_name(s)
QueryFromName ==
  \E s \in NameInputs :
    /\ lookup = "none"
    /\ lookup' = "from_name"
    /\ input' = s
    /\ answer' = from_name(s)
    /\ back' = None
    /\ UNCHANGED runVars

\* p.unicode(), and from_unicode of the glyph it returned
QueryUnicode ==
  \E p \in Tags :
    /\ lookup = "none"
    /\ lookup' = "unicode"
    /\ input' = <<p>>
    /\ answer' = unicode(p)
    /\ back' = UNION {from_unicode(c) : c \in unicode(p)}
    /\ UNCHANGED runVars

\* p.ascii(), and from_simple of the token it returned
QueryAscii ==
  \E p \in Tags :
    /\ lookup = "none"
    /\ lookup' = "ascii"
    /\ input' = <<p>>
    /\ answer' = ascii(p)
    /\ back' = UNION {from_simple(t) : t \in ascii(p)}
    /\ UNCHANGED runVars

\* Primitive::from_unicode(c), and the glyph of the primitive it returned
QueryFromUnicode ==
  \E c \in GlyphInputs :
    /\ lookup = "none"
    /\ lookup' = "from_unicode"
    /\ input' = <<c>>
    /\ answer' = from_unicode(c)
    /\ back' = UNION {unicode(p) : p \in from_unicode(c)}
    /\ UNCHANGED runVars

\* Primitive::from_simple(t), and the token of the primitive it returned
QueryFromSimple ==
  \E t \in SimpleInputs :
    /\ lookup = "none"
    /\ lookup' = "from_simple"
    /\ input' = <<t>>
    /\ answer' = from_simple(t)
    /\ back' = UNION {ascii(p) : p \in from_simple(t)}
    /\ UNCHANGED runVars

CatalogNext ==
  \/ QueryInverse
  \/ QueryFromName
  \/ QueryUnicode
  \/ QueryAscii
  \/ QueryFromUnicode
  \/ QueryFromSimple

SpecCatalog == CatalogInit /\ [][CatalogNext]_vars

----------------------------------------------------------------------------
(* Values.  A value is a record: k its kind ("num", "char", "fn", "arr"),  *)
(* n the number, cells the leading-axis cells of an array, id the function *)
(* name, the character, the array's element type, or the name of a number  *)
(* that is not an integer.                                                 *)

Num(i) == [k |-> "num", n |-> i, cells |-> <<>>, id |-> ""]

Chr(c) == [k |-> "char", n |-> 0, cells |-> <<>>, id |-> c]

Fn(f) == [k |-> "fn", n |-> 0, cells |-> <<>>, id |-> f]

Arr(ty, cs) == [k |-> "arr", n |-> 0, cells |-> cs, id |-> ty]

\* std::f64::consts::PI
PI == [k |-> "num", n |-> 0, cells |-> <<>>, id |-> "pi"]

\* std::f64::INFINITY
INFINITY == [k |-> "num", n |-> 0, cells |-> <<>>, id |-> "inf"]

\* a character array holding the text s
Str(s) == Arr("char", [i \in 1..Len(s) |-> Chr(s[i])])

is_array(v) == v.k = "arr"

is_function(v) == v.k = "fn"

is_num(v) == v.k = "num"

is_chars(v) == v.k = "arr" /\ v.id = "char"

\* Some(n) iff the value is a non-negative integer
as_nat(v) == IF v.k = "num" /\ v.id = "" /\ v.n >= 0 THEN {v.n} ELSE {}

\* Array::into_values: the cells along the leading axis
into_values(v) == v.cells

\* element type of the array that holds v alone
TypeOf(v) ==
  CASE v.k = "num" -> "num"
    [] v.k = "char" -> "char"
    [] v.k = "arr" -> v.id
    [] OTHER -> "value"

\* Array::from(value): a one-cell array
ArrayFromValue(v) == Arr(TypeOf(v), <<v>>)

\* Array::from(vec).normalized() / normalized_type(): the cells are kept,
\* the element type is the cells' common type when they have one
normalized(cs) ==
  LET types == {TypeOf(cs[i]) : i \in 1..Len(cs)}
  IN Arr(IF Cardinality(types) = 1 THEN CHOOSE t \in types : TRUE ELSE "value", cs)

\* Array::from(ty): the empty array of an element type
ArrayFromType(ty) == Arr(ty, <<>>)

\* the text of a character array
Text(v) == [i \in 1..Len(v.cells) |-> v.cells[i].id]

Digit(d) == <<"0", "1", "2", "3", "4", "5", "6", "7", "8", "9">>[d + 1]

RECURSIVE Digits(_)
Digits(i) == IF i < 10 THEN <<Digit(i)>> ELSE Append(Digits(i \div 10), Digit(i % 10))

\* Value::to_string, as far as run needs it: text as it is, integers in decimal
to_string(v) ==
  IF is_chars(v) THEN Text(v)
  ELSE IF v.k = "num" /\ v.id = "" THEN (IF v.n < 0 THEN <<"-">> \o Digits(-v.n) ELSE Digits(v.n))
  ELSE IF v.k = "num" THEN <<>> \o <<v.id>>
  ELSE <<"<">> \o <<v.k>> \o <<">">>

----------------------------------------------------------------------------
(* Error messages                                                          *)

MsgOnlyFunctions == <<"O", "n", "l", "y", " ", "f", "u", "n", "c", "t", "i", "o", "n", "s", " ", "c", "a", "n", " ", "b", "e", " ", "i", "n", "v", "e", "r", "t", "e", "d">>

MsgRepetitions == <<"R", "e", "p", "e", "t", "i", "t", "i", "o", "n", "s", " ", "m", "u", "s", "t", " ", "b", "e", " ", "a", " ", "n", "a", "t", "u", "r", "a", "l", " ", "n", "u", "m", "b", "e", "r">>

MsgReduceEmpty == <<"C", "a", "n", "n", "o", "t", " ", "r", "e", "d", "u", "c", "e", " ", "e", "m", "p", "t", "y", " ", "a", "r", "r", "a", "y">>

MsgUseName == <<"U", "s", "e", " ", "n", "a", "m", "e", " ", "m", "u", "s", "t", " ", "b", "e", " ", "a", " ", "s", "t", "r", "i", "n", "g">>

MsgNoFunction(nm) == <<"N", "o", " ", "f", "u", "n", "c", "t", "i", "o", "n", " ", "f", "o", "u", "n", "d", " ", "f", "o", "r", " ">> \o nm

\* CallEnv::pop on an empty stack
MsgStackEmpty == <<"S", "t", "a", "c", "k", " ", "w", "a", "s", " ", "e", "m", "p", "t", "y">>

\* a kernel refusing its operands
MsgKernel == <<"I", "n", "v", "a", "l", "i", "d", " ", "o", "p", "e", "r", "a", "n", "d", "s">>

\* raised by the failing user functions
MsgFail == <<"f", "a", "i", "l">>

----------------------------------------------------------------------------
(* CallEnv: the stack, the log of calls, and the error being returned      *)

Env(stk) == [stack |-> stk, calls |-> <<>>, ok |-> TRUE, msg |-> <<>>]

\* Err(env.error(m))
Error(e, m) == [e EXCEPT !.ok = FALSE, !.msg = m]

push(e, v) == [e EXCEPT !.stack = Append(@, v)]

\* the value a successful pop returns
Top(e) == e.stack[Len(e.stack)]

pop(e) ==
  IF e.stack = <<>> THEN Error(e, MsgStackEmpty)
  ELSE [e EXCEPT !.stack = SubSeq(@, 1, Len(@) - 1)]

stack_size(e) == Len(e.stack)

\* Vec::truncate: no effect when the stack is already shorter
truncate(e, size) ==
  [e EXCEPT !.stack = IF Len(@) > size THEN SubSeq(@, 1, size) ELSE @]

----------------------------------------------------------------------------
(* User functions.  Function bodies are compiled user code; the model      *)
(* carries a few, named by what they do to the stack.                      *)

FnIds == {"neg", "sub", "ident", "drop", "fail", "popfail", "pushfail"}

\* FunctionId::Named(name)
FnName(f) ==
  CASE f = "neg" -> <<"n", "e", "g">>
    [] f = "sub" -> <<"s", "u", "b">>
    [] f = "ident" -> <<"i", "d", "e", "n", "t">>
    [] f = "drop" -> <<"d", "r", "o", "p">>
    [] f = "fail" -> <<"f", "a", "i", "l">>
    [] f = "popfail" -> <<"p", "o", "p", "f", "a", "i", "l">>
    [] f = "pushfail" -> <<"p", "u", "s", "h", "f", "a", "i", "l">>

\* the body of function f run on e
Apply(f, e) ==
  LET a == Top(e)
      e1 == pop(e)
      b == Top(e1)
      e2 == pop(e1)
  IN CASE f = "neg" ->      \* 1 -> 1: negate a number
            IF ~e1.ok THEN e1
            ELSE IF a.k = "num" /\ a.id = "" THEN push(e1, Num(-a.n))
            ELSE Error(e1, MsgKernel)
       [] f = "sub" ->      \* 2 -> 1: the top minus the one below it
            IF ~e1.ok THEN e1
            ELSE IF ~e2.ok THEN e2
            ELSE IF a.k = "num" /\ a.id = "" /\ b.k = "num" /\ b.id = ""
                 THEN push(e2, Num(a.n - b.n))
            ELSE Error(e2, MsgKernel)
       [] f = "ident" ->    \* 1 -> 1: any value, unchanged
            IF ~e1.ok THEN e1 ELSE push(e1, a)
       [] f = "drop" ->     \* 1 -> 0: pops one value
            e1
       [] f = "fail" ->     \* errors at once
            Error(e, MsgFail)
       [] f = "popfail" ->  \* pops one value, then errors
            IF ~e1.ok THEN e1 ELSE Error(e1, MsgFail)
       [] f = "pushfail" -> \* pushes one value, then errors
            Error(push(e, Num(0)), MsgFail)

\* CallEnv::call: pop the top of the stack and invoke it; a value that is
\* no function is a constant and goes back on the stack
call(e) ==
  IF e.stack = <<>> THEN Error(e, MsgStackEmpty)
  ELSE LET f == Top(e)
           e1 == pop(e)
           e2 == IF is_function(f) THEN Apply(f.id, e1) ELSE push(e1, f)
       IN [e2 EXCEPT !.calls =
             Append(e1.calls, [f |-> f, pre |-> e1.stack, post |-> e2.stack, ok |-> e2.ok])]

----------------------------------------------------------------------------
(* Primitive::run, one operator per match arm.  Each takes the CallEnv at  *)
(* entry and gives the CallEnv at return; ok = FALSE is Err(e), and the    *)
(* stack is then what the arm had made of it when it returned.             *)

\* the arms that hand one operand to a value kernel
MonadicPrims ==
  {"Not", "Neg", "Abs", "Sign", "Sqrt", "Sin", "Cos", "Asin", "Acos", "Floor",
   "Ceil", "Round", "Transpose", "Enclose", "Normalize", "Sort", "Grade",
   "Indices", "Classify", "Deduplicate", "Parse", "Len", "Rank", "Shape",
   "Range", "Reverse", "Deshape", "First", "String"}

\* the arms that hand two operands to a value kernel
DyadicPrims ==
  {"Eq", "Ne", "Lt", "Le", "Gt", "Ge", "Add", "Sub", "Mul", "Div", "Mod",
   "Pow", "Root", "Min", "Max", "Atan", "Match", "NoMatch", "Join", "Reshape",
   "Pick", "Replicate", "Take", "Drop", "Rotate", "Pair", "Couple", "Select",
   "Windows", "Member", "Group", "IndexOf"}

\* the arms whose adapter passes the environment (monadic_env, dyadic_env,
\* monadic_mut_env, dyadic_mut_env): only these kernels can return an error
EnvPrims ==
  (MonadicPrims \cup DyadicPrims) \
    {"Match", "NoMatch", "Transpose", "Enclose", "Pair", "Member", "Len",
     "Rank", "Shape", "Reverse", "Deshape", "String"}

\* What a value kernel may return.  The kernels are outside this file: the
\* run arm sees a value or an error, whichever the kernel chooses.
KernelOutcomes(p) ==
  {[ok |-> TRUE, v |-> Num(0)], [ok |-> TRUE, v |-> Arr("num", <<Num(0)>>)]}
    \cup (IF p \in EnvPrims THEN {[ok |-> FALSE, v |-> Num(0)]} ELSE {})

\* env.monadic*(kernel): one operand off the stack, the kernel's value on it
monadic(e, r) ==
  LET e1 == pop(e)
  IN IF ~e1.ok THEN e1
     ELSE IF ~r.ok THEN Error(e1, MsgKernel) ELSE push(e1, r.v)

\* env.dyadic*(kernel): two operands off the stack, the kernel's value on it
dyadic(e, r) ==
  LET e1 == pop(e)
      e2 == pop(e1)
  IN IF ~e1.ok THEN e1
     ELSE IF ~e2.ok THEN e2
     ELSE IF ~r.ok THEN Error(e2, MsgKernel) ELSE push(e2, r.v)

RunPi(e) == push(e, PI)

RunInfinity(e) == push(e, INFINITY)

RunNop(e) == e

RunCall(e) == call(e)

RECURSIVE PushAll(_, _, _)
\* push cs[i], cs[i-1], ..., cs[1]
PushAll(e, cs, i) == IF i < 1 THEN e ELSE PushAll(push(e, cs[i]), cs, i - 1)

RECURSIVE PushForward(_, _, _)
\* push cs[i], cs[i+1], ..., cs[Len(cs)]
PushForward(e, cs, i) ==
  IF i > Len(cs) THEN e ELSE PushForward(push(e, cs[i]), cs, i + 1)

\* Unpack with the .rev() left out
RunUnpack_NoRev(e) ==
  LET value == Top(e)
      e1 == pop(e)
  IN IF ~e1.ok THEN e1
     ELSE IF is_array(value) THEN PushForward(e1, into_values(value), 1)
     ELSE push(e1, value)

RunUnpack(e) ==
  LET value == Top(e)
      e1 == pop(e)
  IN IF ~e1.ok THEN e1
     ELSE IF is_array(value)
          THEN PushAll(e1, into_values(value), Len(into_values(value)))
     ELSE push(e1, value)

\* Value::put: the array with the cell at a natural index replaced
put(index, value, array) ==
  IF is_array(array) /\ as_nat(index) # {} /\ index.n < Len(array.cells)
  THEN [ok |-> TRUE, v |-> normalized([array.cells EXCEPT ![index.n + 1] = value])]
  ELSE [ok |-> FALSE, v |-> index]

RunPut(e) ==
  LET index == Top(e)
      e1 == pop(e)
      value == Top(e1)
      e2 == pop(e1)
      array == Top(e2)
      e3 == pop(e2)
      r == put(index, value, array)
  IN IF ~e1.ok THEN e1
     ELSE IF ~e2.ok THEN e2
     ELSE IF ~e3.ok THEN e3
     ELSE IF ~r.ok THEN Error(e3, MsgKernel)
     ELSE push(e3, r.v)

RunDup(e) ==
  IF e.stack = <<>> THEN Error(e, MsgStackEmpty) ELSE push(e, Top(e))

RunFlip(e) ==
  LET a == Top(e)
      e1 == pop(e)
      b == Top(e1)
      e2 == pop(e1)
  IN IF ~e1.ok THEN e1
     ELSE IF ~e2.ok THEN e2
     ELSE push(push(e2, a), b)

RunOver(e) ==
  LET a == Top(e)
      e1 == pop(e)
      b == Top(e1)
      e2 == pop(e1)
  IN IF ~e1.ok THEN e1
     ELSE IF ~e2.ok THEN e2
     ELSE push(push(push(e2, b), a), b)

RunPop(e) == pop(e)

\* Function::inverse(env, under): user functions that have an inverse
FnInverse(f, under) ==
  CASE f = "neg" -> {"neg"}
    [] f = "ident" -> {"ident"}
    [] OTHER -> {}

\* the error of a function that has no inverse
MsgNoInverse == <<"N", "o", " ", "i", "n", "v", "e", "r", "s", "e", " ", "f", "o", "u", "n", "d">>

RunInvert(e) ==
  LET f == Top(e)
      e1 == pop(e)
  IN IF ~e1.ok THEN e1
     ELSE IF ~is_function(f) THEN Error(e1, MsgOnlyFunctions)
     ELSE IF FnInverse(f.id, FALSE) = {} THEN Error(e1, MsgNoInverse)
     ELSE call(push(e1, Fn(CHOOSE g \in FnInverse(f.id, FALSE) : TRUE)))

\* Under calling g before f
RunUnder_GFirst(e) ==
  LET f == Top(e)
      e1 == pop(e)
      g == Top(e1)
      e2 == pop(e1)
      f_inv == Fn(CHOOSE h \in FnInverse(f.id, TRUE) : TRUE)
      e3 == call(push(e2, g))
      e4 == call(push(e3, f))
  IN IF ~e1.ok THEN e1
     ELSE IF ~e2.ok THEN e2
     ELSE IF ~is_function(f) \/ ~is_function(g) THEN Error(e2, MsgOnlyFunctions)
     ELSE IF FnInverse(f.id, TRUE) = {} THEN Error(e2, MsgNoInverse)
     ELSE IF ~e3.ok THEN e3
     ELSE IF ~e4.ok THEN e4
     ELSE call(push(e4, f_inv))

RunUnder(e) ==
  LET f == Top(e)
      e1 == pop(e)
      g == Top(e1)
      e2 == pop(e1)
      f_inv == Fn(CHOOSE h \in FnInverse(f.id, TRUE) : TRUE)
      e3 == call(push(e2, f))
      e4 == call(push(e3, g))
  IN IF ~e1.ok THEN e1
     ELSE IF ~e2.ok THEN e2
     ELSE IF ~is_function(f) \/ ~is_function(g) THEN Error(e2, MsgOnlyFunctions)
     ELSE IF FnInverse(f.id, TRUE) = {} THEN Error(e2, MsgNoInverse)
     ELSE IF ~e3.ok THEN e3
     ELSE IF ~e4.ok THEN e4
     ELSE call(push(e4, f_inv))

RECURSIVE FoldLoop(_, _, _, _, _)
\* for cell in cells[i..]: push acc, cell, f; call; pop into acc
FoldLoop(e, f, acc, cells, i) ==
  IF i > Len(cells) THEN push(e, acc)
  ELSE LET e1 == call(push(push(push(e, acc), cells[i]), f))
           e2 == pop(e1)
       IN IF ~e1.ok THEN e1
          ELSE IF ~e2.ok THEN e2
          ELSE FoldLoop(e2, f, Top(e1), cells, i + 1)

RECURSIVE FoldLoop_AccOnTop(_, _, _, _, _)
\* the Fold loop pushing in Reduce's order: cell, then acc
FoldLoop_AccOnTop(e, f, acc, cells, i) ==
  IF i > Len(cells) THEN push(e, acc)
  ELSE LET e1 == call(push(push(push(e, cells[i]), acc), f))
           e2 == pop(e1)
       IN IF ~e1.ok THEN e1
          ELSE IF ~e2.ok THEN e2
          ELSE FoldLoop_AccOnTop(e2, f, Top(e1), cells, i + 1)

\* Fold presenting its operands as Reduce does
RunFold_AccOnTop(e) ==
  LET f == Top(e)
      e1 == pop(e)
      acc == Top(e1)
      e2 == pop(e1)
      xs == Top(e2)
      e3 == pop(e2)
  IN IF ~e1.ok THEN e1
     ELSE IF ~e2.ok THEN e2
     ELSE IF ~e3.ok THEN e3
     ELSE IF ~is_array(xs) THEN call(push(push(push(e3, acc), xs), f))
     ELSE FoldLoop_AccOnTop(e3, f, acc, into_values(xs), 1)

RunFold(e) ==
  LET f == Top(e)
      e1 == pop(e)
      acc == Top(e1)
      e2 == pop(e1)
      xs == Top(e2)
      e3 == pop(e2)
  IN IF ~e1.ok THEN e1
     ELSE IF ~e2.ok THEN e2
     ELSE IF ~e3.ok THEN e3
     ELSE IF ~is_array(xs) THEN call(push(push(push(e3, acc), xs), f))
     ELSE FoldLoop(e3, f, acc, into_values(xs), 1)

RECURSIVE ReduceLoop(_, _, _, _, _)
\* for cell in cells[i..]: push cell, acc, f; call; pop into acc
ReduceLoop(e, f, acc, cells, i) ==
  IF i > Len(cells) THEN push(e, acc)
  ELSE LET e1 == call(push(push(push(e, cells[i]), acc), f))
           e2 == pop(e1)
       IN IF ~e1.ok THEN e1
          ELSE IF ~e2.ok THEN e2
          ELSE ReduceLoop(e2, f, Top(e1), cells, i + 1)

\* Reduce starting its loop at the first cell, with the first cell as acc
RunReduce_FromFirst(e) ==
  LET f == Top(e)
      e1 == pop(e)
      xs == Top(e1)
      e2 == pop(e1)
  IN IF ~e1.ok THEN e1
     ELSE IF ~e2.ok THEN e2
     ELSE IF ~is_array(xs) THEN push(e2, xs)
     ELSE IF into_values(xs) = <<>> THEN Error(e2, MsgReduceEmpty)
     ELSE ReduceLoop(e2, f, into_values(xs)[1], into_values(xs), 1)

RunReduce(e) ==
  LET f == Top(e)
      e1 == pop(e)
      xs == Top(e1)
      e2 == pop(e1)
  IN IF ~e1.ok THEN e1
     ELSE IF ~e2.ok THEN e2
     ELSE IF ~is_array(xs) THEN push(e2, xs)
     ELSE IF into_values(xs) = <<>> THEN Error(e2, MsgReduceEmpty)
     ELSE ReduceLoop(e2, f, into_values(xs)[1], into_values(xs), 2)

RECURSIVE EachLoop(_, _, _, _, _)
\* for val in values[i..]: push val, f; call; pop onto new_values
EachLoop(e, f, values, new_values, i) ==
  IF i > Len(values) THEN push(e, normalized(new_values))
  ELSE LET e1 == call(push(push(e, values[i]), f))
           e2 == pop(e1)
       IN IF ~e1.ok THEN e1
          ELSE IF ~e2.ok THEN e2
          ELSE EachLoop(e2, f, values, Append(new_values, Top(e1)), i + 1)

RECURSIVE Flat(_)
\* Array::into_shape_flat_values: the scalars in row-major order
Flat(v) ==
  IF ~is_array(v) THEN <<v>>
  ELSE LET RECURSIVE Cat(_)
           Cat(i) == IF i > Len(v.cells) THEN <<>> ELSE Flat(v.cells[i]) \o Cat(i + 1)
       IN Cat(1)

RECURSIVE Reshaped(_, _)
\* Array::from((shape, values)): values laid out in the shape of v, from 1
Reshaped(v, values) ==
  IF ~is_array(v) THEN values[1]
  ELSE LET RECURSIVE Build(_, _)
           Build(i, from) ==
             IF i > Len(v.cells) THEN <<>>
             ELSE LET w == Len(Flat(v.cells[i]))
                  IN <<Reshaped(v.cells[i], SubSeq(values, from, from + w - 1))>>
                       \o Build(i + 1, from + w)
       IN normalized(Build(1, 1))

RECURSIVE EachFlatLoop(_, _, _, _, _, _)
EachFlatLoop(e, f, xs, values, new_values, i) ==
  IF i > Len(values) THEN push(e, Reshaped(xs, new_values))
  ELSE LET e1 == call(push(push(e, values[i]), f))
           e2 == pop(e1)
       IN IF ~e1.ok THEN e1
          ELSE IF ~e2.ok THEN e2
          ELSE EachFlatLoop(e2, f, xs, values, Append(new_values, Top(e1)), i + 1)

RunEach(e) ==
  LET f == Top(e)
      e1 == pop(e)
      xs == Top(e1)
      e2 == pop(e1)
  IN IF ~e1.ok THEN e1
     ELSE IF ~e2.ok THEN e2
     ELSE IF ~is_array(xs) THEN call(push(push(e2, xs), f))
     ELSE EachFlatLoop(e2, f, xs, Flat(xs), <<>>, 1)

RunCells(e) ==
  LET f == Top(e)
      e1 == pop(e)
      xs == Top(e1)
      e2 == pop(e1)
  IN IF ~e1.ok THEN e1
     ELSE IF ~e2.ok THEN e2
     ELSE IF ~is_array(xs) THEN call(push(push(e2, xs), f))
     ELSE EachLoop(e2, f, into_values(xs), <<>>, 1)

RECURSIVE TableRow(_, _, _, _, _, _)
\* for b in ys[j..]: push b, a, f; call; pop onto row
TableRow(e, f, a, ys, row, j) ==
  IF j > Len(ys) THEN [env |-> e, row |-> row]
  ELSE LET e1 == call(push(push(push(e, ys[j]), a), f))
           e2 == pop(e1)
       IN IF ~e1.ok THEN [env |-> e1, row |-> row]
          ELSE IF ~e2.ok THEN [env |-> e2, row |-> row]
          ELSE TableRow(e2, f, a, ys, Append(row, Top(e1)), j + 1)

RECURSIVE TableLoop(_, _, _, _, _, _)
\* for a in xs[i..]: build its row, push it onto table
TableLoop(e, f, xs, ys, table, i) ==
  IF i > Len(xs) THEN push(e, normalized(table))
  ELSE LET r == TableRow(e, f, xs[i], ys, <<>>, 1)
       IN IF ~r.env.ok THEN r.env
          ELSE TableLoop(r.env, f, xs, ys, Append(table, normalized(r.row)), i + 1)

\* Table with the two loops nested the other way round
RunTable_YsOuter(e) ==
  LET f == Top(e)
      e1 == pop(e)
      xs == Top(e1)
      e2 == pop(e1)
      ys == Top(e2)
      e3 == pop(e2)
      a == IF is_array(xs) THEN xs ELSE ArrayFromValue(xs)
      b == IF is_array(ys) THEN ys ELSE ArrayFromValue(ys)
  IN IF ~e1.ok THEN e1
     ELSE IF ~e2.ok THEN e2
     ELSE IF ~e3.ok THEN e3
     ELSE IF ~is_array(xs) /\ ~is_array(ys)
          THEN call(push(push(push(e3, ys), xs), f))
     ELSE TableLoop(e3, f, into_values(b), into_values(a), <<>>, 1)

RunTable(e) ==
  LET f == Top(e)
      e1 == pop(e)
      xs == Top(e1)
      e2 == pop(e1)
      ys == Top(e2)
      e3 == pop(e2)
      a == IF is_array(xs) THEN xs ELSE ArrayFromValue(xs)
      b == IF is_array(ys) THEN ys ELSE ArrayFromValue(ys)
  IN IF ~e1.ok THEN e1
     ELSE IF ~e2.ok THEN e2
     ELSE IF ~e3.ok THEN e3
     ELSE IF ~is_array(xs) /\ ~is_array(ys)
          THEN call(push(push(push(e3, ys), xs), f))
     ELSE TableLoop(e3, f, into_values(a), into_values(b), <<>>, 1)

RECURSIVE ScanLoop(_, _, _, _, _, _)
\* for cell in cells[i..]: push cell, acc, f; call; pop into acc; record acc
ScanLoop(e, f, acc, cells, scanned, i) ==
  IF i > Len(cells) THEN push(e, normalized(scanned))
  ELSE LET e1 == call(push(push(push(e, cells[i]), acc), f))
           e2 == pop(e1)
       IN IF ~e1.ok THEN e1
          ELSE IF ~e2.ok THEN e2
          ELSE ScanLoop(e2, f, Top(e1), cells, Append(scanned, Top(e1)), i + 1)

\* Scan that forgets to record the first accumulator
RunScan_DropFirst(e) ==
  LET f == Top(e)
      e1 == pop(e)
      xs == Top(e1)
      e2 == pop(e1)
      cells == into_values(xs)
  IN IF ~e1.ok THEN e1
     ELSE IF ~e2.ok THEN e2
     ELSE IF ~is_array(xs) THEN push(e2, xs)
     ELSE IF cells = <<>> THEN push(e2, ArrayFromType(xs.id))
     ELSE ScanLoop(e2, f, cells[1], cells, <<>>, 2)

RunScan(e) ==
  LET f == Top(e)
      e1 == pop(e)
      xs == Top(e1)
      e2 == pop(e1)
      cells == into_values(xs)
  IN IF ~e1.ok THEN e1
     ELSE IF ~e2.ok THEN e2
     ELSE IF ~is_array(xs) THEN push(e2, xs)
     ELSE IF cells = <<>> THEN push(e2, ArrayFromType(xs.id))
     ELSE ScanLoop(e2, f, cells[1], cells, <<cells[1]>>, 2)

RECURSIVE RepeatLoop(_, _, _, _)
\* k more rounds of: push acc, f; call; pop into acc
RepeatLoop(e, f, acc, k) ==
  IF k = 0 THEN push(e, acc)
  ELSE LET e1 == call(push(push(e, acc), f))
           e2 == pop(e1)
       IN IF ~e1.ok THEN e1
          ELSE IF ~e2.ok THEN e2
          ELSE RepeatLoop(e2, f, Top(e1), k - 1)

\* Repeat looping over 0..=n
RunRepeat_Inclusive(e) ==
  LET f == Top(e)
      e1 == pop(e)
      acc == Top(e1)
      e2 == pop(e1)
      n == Top(e2)
      e3 == pop(e2)
  IN IF ~e1.ok THEN e1
     ELSE IF ~e2.ok THEN e2
     ELSE IF ~e3.ok THEN e3
     ELSE IF as_nat(n) = {} THEN Error(e3, MsgRepetitions)
     ELSE RepeatLoop(e3, f, acc, (CHOOSE k \in as_nat(n) : TRUE) + 1)

RunRepeat(e) ==
  LET f == Top(e)
      e1 == pop(e)
      acc == Top(e1)
      e2 == pop(e1)
      n == Top(e2)
      e3 == pop(e2)
  IN IF ~e1.ok THEN e1
     ELSE IF ~e2.ok THEN e2
     ELSE IF ~e3.ok THEN e3
     ELSE IF as_nat(n) = {} THEN Error(e3, MsgRepetitions)
     ELSE RepeatLoop(e3, f, acc, CHOOSE k \in as_nat(n) : TRUE)

\* the environment once an error has been caught: run goes on
Caught(e) == [e EXCEPT !.ok = TRUE, !.msg = <<>>]

RunTry(e) ==
  LET f == Top(e)
      e1 == pop(e)
      handler == Top(e1)
      e2 == pop(e1)
      size == stack_size(e2)
      e3 == call(push(e2, f))
  IN IF ~e1.ok THEN e1
     ELSE IF ~e2.ok THEN e2
     ELSE IF e3.ok THEN e3
     ELSE call(push(push(truncate(Caught(e3), size), Str(e3.msg)), handler))

\* RunAssert: the Assert arm
RunAssert(e) ==
  LET message == Top(e)
      e1 == pop(e)
      cond == Top(e1)
      e2 == pop(e1)
  IN IF ~e1.ok THEN e1
     ELSE IF ~e2.ok THEN e2
     ELSE IF ~(is_num(cond) /\ cond.id = "" /\ cond.n = 1)
          THEN Error(e2, to_string(message))
     ELSE e2

\* Value::coerce_array
coerce_array(v) == IF is_array(v) THEN v ELSE ArrayFromValue(v)

RunUse(e) ==
  LET lib == Top(e)
      e1 == pop(e)
      nm == Top(e1)
      e2 == pop(e1)
      arr == coerce_array(lib)
      lowername == to_lowercase(Text(nm))
      found == {i \in 1..Len(arr.cells) :
                  /\ arr.id = "value"
                  /\ is_function(arr.cells[i])
                  /\ to_lowercase(FnName(arr.cells[i].id)) = lowername}
  IN IF ~e1.ok THEN e1
     ELSE IF ~e2.ok THEN e2
     ELSE IF ~is_array(nm) \/ ~is_chars(nm) THEN Error(e2, MsgUseName)
     ELSE IF found = {}
          THEN Error(e2, MsgNoFunction(<<"U0022">> \o Text(nm) \o <<"U0022">>))
     ELSE push(e2, arr.cells[MinOf(found)])

----------------------------------------------------------------------------
(* The dispatcher as a state machine: one call of run per behaviour.       *)

\* longest array among the inputs
MaxLen == 3

\* most values lying on the stack below the operands
MaxBelow == 1

\* most operands an arm pops for itself (Put, Fold, Table, Repeat)
MaxArgs == 3

\* values below the operands, all different from any operand
Below(b) == [i \in 1..b |-> Num(10 + i)]

\* every stack of up to MaxArgs values of V on top of up to MaxBelow others
Stacks(V) ==
  {Below(b) \o ops :
     b \in 0..MaxBelow, ops \in UNION {[1..d -> V] : d \in 0..MaxArgs}}

\* a few values of every kind, for the whole dispatcher
CoreVals ==
  {Num(0), Num(1), Arr("num", <<Num(1), Num(2)>>), Str(<<"N", "e", "g">>), Fn("neg")}

\* numbers, arrays, text and functions for the arms that call functions
RichVals ==
  {Num(i) : i \in {-1, 0, 1, 2, 3, 5}}
    \cup {Arr("num", [i \in 1..n |-> Num(i)]) : n \in 0..MaxLen}
    \cup {Arr("num", <<Arr("num", <<Num(1), Num(2)>>), Arr("num", <<Num(3), Num(4)>>)>>)}
    \cup {Str(<<>>), Str(<<"N", "e", "g">>)}
    \cup {Fn(f) : f \in FnIds}

InitOn(V) ==
  /\ lookup = "none"
  /\ input = <<>>
  /\ answer = None
  /\ back = None
  /\ prim = ""
  /\ stack \in Stacks(V)
  /\ stack0 = stack
  /\ calls = <<>>
  /\ status = "ready"
  /\ msg = <<>>

Init == InitOn(CoreVals)

InitControl == InitOn(RichVals)

\* run(p, env) returning r
Return(p, r) ==
  /\ status = "ready"
  /\ prim' = p
  /\ stack' = r.stack
  /\ calls' = r.calls
  /\ status' = IF r.ok THEN "ok" ELSE "err"
  /\ msg' = r.msg
  /\ UNCHANGED <<stack0, catalogVars>>

Arm_Pi == Return("Pi", RunPi(Env(stack)))

Arm_Infinity == Return("Infinity", RunInfinity(Env(stack)))

Arm_Nop == Return("Nop", RunNop(Env(stack)))

Arm_Monadic ==
  \E p \in MonadicPrims : \E r \in KernelOutcomes(p) :
    Return(p, monadic(Env(stack), r))

Arm_Dyadic ==
  \E p \in DyadicPrims : \E r \in KernelOutcomes(p) :
    Return(p, dyadic(Env(stack), r))

Arm_Call == Return("Call", RunCall(Env(stack)))

Arm_Unpack == Return("Unpack", RunUnpack(Env(stack)))

Arm_Put == Return("Put", RunPut(Env(stack)))

Arm_Dup == Return("Dup", RunDup(Env(stack)))

Arm_Flip == Return("Flip", RunFlip(Env(stack)))

Arm_Over == Return("Over", RunOver(Env(stack)))

Arm_Pop == Return("Pop", RunPop(Env(stack)))

Arm_Invert == Return("Invert", RunInvert(Env(stack)))

Arm_Under == Return("Under", RunUnder(Env(stack)))

Arm_Fold == Return("Fold", RunFold(Env(stack)))

Arm_Reduce == Return("Reduce", RunReduce(Env(stack)))

Arm_Each == Return("Each", RunEach(Env(stack)))

Arm_Cells == Return("Cells", RunCells(Env(stack)))

Arm_Table == Return("Table", RunTable(Env(stack)))

Arm_Scan == Return("Scan", RunScan(Env(stack)))

Arm_Repeat == Return("Repeat", RunRepeat(Env(stack)))

Arm_Try == Return("Try", RunTry(Env(stack)))

Arm_Assert == Return("Assert", RunAssert(Env(stack)))

Arm_Use == Return("Use", RunUse(Env(stack)))

\* every arm of run but Io(io), which forwards to the I/O backend
Next ==
  \/ Arm_Pi
  \/ Arm_Infinity
  \/ Arm_Nop
  \/ Arm_Monadic
  \/ Arm_Dyadic
  \/ Arm_Call
  \/ Arm_Unpack
  \/ Arm_Put
  \/ Arm_Dup
  \/ Arm_Flip
  \/ Arm_Over
  \/ Arm_Pop
  \/ Arm_Invert
  \/ Arm_Under
  \/ Arm_Fold
  \/ Arm_Reduce
  \/ Arm_Each
  \/ Arm_Cells
  \/ Arm_Table
  \/ Arm_Scan
  \/ Arm_Repeat
  \/ Arm_Try
  \/ Arm_Assert
  \/ Arm_Use

Spec == Init /\ [][Next]_vars

\* the arms that call functions or unpack arrays, on the richer inputs
NextControl ==
  \/ Arm_Unpack
  \/ Arm_Fold
  \/ Arm_Reduce
  \/ Arm_Table
  \/ Arm_Scan
  \/ Arm_Repeat
  \/ Arm_Try
  \/ Arm_Under

SpecControl == InitControl /\ [][NextControl]_vars

----------------------------------------------------------------------------
(* Catalog claims                                                          *)

\* C1: the inverse table is an involution on its domain: whenever
\* inverse(p) = Some(q), inverse(q) = Some(p).
C1_InverseInvolution ==
  (lookup = "inverse" /\ answer # None) => back = {input[1]}

\* The rule of C4 restated over the catalog: the first row, in catalog
\* order, whose name starts with the lowercased input, kept iff its name is
\* the input or no other row's name starts with it.
PrefixRule(lower) ==
  LET starts == {i \in 1..Len(ALL) : \E n \in ALL[i].name : starts_with(n, lower)}
      first == CHOOSE i \in starts : \A j \in starts : i <= j
  IN IF starts = {} THEN None
     ELSE IF lower \in ALL[first].name \/ starts \ {first} = {}
          THEN {ALL[first].tag} ELSE None

\* C4: for an input that is no I/O op name and not pi, from_name returns
\* None below three characters and otherwise follows the prefix rule;
\* "rev" gives Reverse, "re" None, "resh" Reshape and "pi" Pi.
C4_FromNamePrefixRule ==
  lookup = "from_name" =>
    LET lower == to_lowercase(input)
    IN /\ (IoOp_from_name(lower) = None /\ lower \notin {<<"p", "i">>, <<"U03C0">>}) =>
            answer = IF Len(input) < 3 THEN None ELSE PrefixRule(lower)
       /\ input = <<"r", "e", "v">> => answer = {"Reverse"}
       /\ input = <<"r", "e">> => answer = None
       /\ input = <<"r", "e", "s", "h">> => answer = {"Reshape"}
       /\ input = <<"p", "i">> => answer = {"Pi"}

\* an exact name that is also a proper prefix of other names
C4_Witness ==
  /\ lookup = "from_name"
  /\ input = <<"n", "o", "t">>
  /\ answer = {"Not"}

\* C5: unicode then from_unicode, and ascii then from_simple, give back the
\* primitive they started from, so no glyph or token is shared.
C5_GlyphAsciiRoundTrip ==
  /\ (lookup = "unicode" /\ answer # None) => back = {input[1]}
  /\ (lookup = "ascii" /\ answer # None) => back = {input[1]}

C5_Witness ==
  /\ lookup = "unicode"
  /\ input = <<"Le">>
  /\ answer = {"U2264"}
  /\ back = {"Le"}

----------------------------------------------------------------------------
(* Dispatcher claims.  The operands are read off stack0, the stack at      *)
(* entry: Operand(1) is the top, Operand(2) the value below it, ...        *)

Operand(k) == stack0[Len(stack0) - k + 1]

\* the part of the entry stack below the top k values
Under0(k) == SubSeq(stack0, 1, Len(stack0) - k)

Last(s) == s[Len(s)]

\* C2: when f errors and the handler takes one value and gives one, Try
\* returns Ok with depth_before - 2 + 1 values on the stack, and the values
\* below the two functions are those that were there before.
C2_TryRecovery ==
  ( /\ prim = "Try"
    /\ Len(stack0) >= 2
    /\ is_function(Operand(1))
    /\ Operand(2) = Fn("ident")
    /\ calls # <<>>
    /\ ~calls[1].ok )
  => /\ status = "ok"
     /\ Len(stack) = Len(stack0) - 2 + 1
     /\ SubSeq(stack, 1, Len(stack0) - 2) = Under0(2)

\* C3: a successful run of a non-modifier primitive with args Some(a) and
\* outputs Some(o) takes a values off the top and leaves o in their place.
C3_ArgsOutputsDelta ==
  ( /\ status = "ok"
    /\ prim \in Tags
    /\ ~is_modifier(prim)
    /\ args(prim) # None
    /\ outputs(prim) # None )
  => LET a == CHOOSE x \in args(prim) : TRUE
         o == CHOOSE x \in outputs(prim) : TRUE
     IN /\ Len(stack0) >= a
        /\ Len(stack) = Len(stack0) - a + o
        /\ SubSeq(stack, 1, Len(stack0) - a) = Under0(a)

\* C6: Reduce on a scalar leaves it, on a one-cell array pushes the cell,
\* on an empty array returns "Cannot reduce empty array"; f is never
\* called, and the successful cases end one value shorter.
C6_ReduceFewCells ==
  (prim = "Reduce" /\ Len(stack0) >= 2) =>
    LET xs == Operand(2)
    IN /\ ~is_array(xs) =>
            /\ calls = <<>> /\ status = "ok"
            /\ stack = Append(Under0(2), xs)
            /\ Len(stack) = Len(stack0) - 1
       /\ (is_array(xs) /\ Len(xs.cells) = 1) =>
            /\ calls = <<>> /\ status = "ok"
            /\ stack = Append(Under0(2), xs.cells[1])
            /\ Len(stack) = Len(stack0) - 1
       /\ (is_array(xs) /\ xs.cells = <<>>) =>
            /\ calls = <<>> /\ status = "err"
            /\ msg = <<"C", "a", "n", "n", "o", "t", " ", "r", "e", "d", "u", "c", "e", " ", "e", "m", "p", "t", "y", " ", "a", "r", "r", "a", "y">>

C6_Witness ==
  /\ prim = "Reduce"
  /\ Len(stack0) >= 2
  /\ Operand(1) = Fn("sub")
  /\ Operand(2) = Arr("num", <<Num(1)>>)
  /\ status = "ok"

\* the call took two values and left one, without error
TwoToOne(c) ==
  /\ c.ok
  /\ Len(c.pre) >= 2
  /\ Len(c.post) = Len(c.pre) - 1
  /\ SubSeq(c.post, 1, Len(c.pre) - 2) = SubSeq(c.pre, 1, Len(c.pre) - 2)

\* C7: for a function f that takes two values and gives one without error,
\* Scan of an n-cell array pushes an array of n cells: the first is xs[0],
\* the k-th the accumulator after k-1 calls; Scan of an empty array pushes
\* an empty array of the same element type and calls nothing.
C7_ScanLength ==
  (prim = "Scan" /\ Len(stack0) >= 2 /\ is_array(Operand(2))) =>
    LET xs == Operand(2)
        n == Len(xs.cells)
    IN /\ ( /\ n > 0
            /\ is_function(Operand(1))
            /\ \A i \in 1..Len(calls) : TwoToOne(calls[i]) )
          => /\ status = "ok"
             /\ Len(calls) = n - 1
             /\ Len(stack) = Len(stack0) - 1
             /\ is_array(Last(stack))
             /\ Len(Last(stack).cells) = n
             /\ Last(stack).cells[1] = xs.cells[1]
             /\ \A k \in 2..n : Last(stack).cells[k] = Last(calls[k - 1].post)
       /\ n = 0 =>
             /\ status = "ok"
             /\ calls = <<>>
             /\ stack = Append(Under0(2), Arr(xs.id, <<>>))

C7_Witness ==
  /\ prim = "Scan"
  /\ Len(stack0) >= 2
  /\ Operand(1) = Fn("sub")
  /\ is_array(Operand(2))
  /\ Len(Operand(2).cells) = 3
  /\ Len(calls) = 2
  /\ status = "ok"

\* the cells Table iterates: a scalar operand counts as a one-cell array
TableCells(v) == IF is_array(v) THEN v.cells ELSE <<v>>

\* Table's operands are an array and an array or scalar, with scalar cells
TableCase ==
  /\ prim = "Table"
  /\ Len(stack0) >= 3
  /\ is_array(Operand(2)) \/ is_array(Operand(3))
  /\ \A i \in 1..Len(TableCells(Operand(2))) : ~is_array(TableCells(Operand(2))[i])
  /\ \A j \in 1..Len(TableCells(Operand(3))) : ~is_array(TableCells(Operand(3))[j])

\* m*n calls in row-major order, ys cell below xs cell, and an m-by-n result
TableDone ==
  LET xs == TableCells(Operand(2))
      ys == TableCells(Operand(3))
      m == Len(xs)
      n == Len(ys)
  IN /\ status = "ok"
     /\ Len(calls) = m * n
     /\ \A i \in 1..m : \A j \in 1..n :
          LET c == calls[(i - 1) * n + j]
          IN /\ c.f = Operand(1)
             /\ Len(c.pre) >= 2
             /\ c.pre[Len(c.pre)] = xs[i]
             /\ c.pre[Len(c.pre) - 1] = ys[j]
     /\ stack # <<>>
     /\ is_array(Last(stack))
     /\ Len(Last(stack).cells) = m
     /\ \A i \in 1..m :
          /\ is_array(Last(stack).cells[i])
          /\ Len(Last(stack).cells[i].cells) = n
          /\ \A j \in 1..n :
               Last(stack).cells[i].cells[j] = Last(calls[(i - 1) * n + j].post)

\* C8 as stated: Table calls f exactly m*n times in row-major order, the
\* ys cell pushed first and the xs cell above it, and pushes the m-by-n
\* array of the calls' results.
C8_TableAsStated == TableCase => TableDone

\* C8 as amended: the same, whenever Table returns Ok; when a call of f
\* errors, or leaves no result to pop, Table returns that error at once.
C8_TableShapeAndOrder ==
  /\ (TableCase /\ status = "ok") => TableDone
  /\ (TableCase /\ status = "err") =>
        /\ calls # <<>>
        /\ Len(calls) <= Len(TableCells(Operand(2))) * Len(TableCells(Operand(3)))
        /\ \A k \in 1..(Len(calls) - 1) : calls[k].ok

C8_Witness ==
  /\ TableCase
  /\ Operand(1) = Fn("sub")
  /\ Len(TableCells(Operand(2))) = 2
  /\ Len(TableCells(Operand(3))) = 3
  /\ status = "ok"
  /\ Len(calls) = 6

\* C9: Unpack replaces an array by its cells, the first cell on top and the
\* last deepest, so popping n values gives c1, ..., cn; the stack below is
\* unchanged, and a value that is no array is left as it was.
C9_UnpackRoundTrip ==
  (prim = "Unpack" /\ Len(stack0) >= 1) =>
    LET a == Operand(1)
        n == Len(a.cells)
    IN /\ status = "ok"
       /\ is_array(a) =>
            /\ Len(stack) = Len(stack0) - 1 + n
            /\ SubSeq(stack, 1, Len(stack0) - 1) = Under0(1)
            /\ \A k \in 1..n : stack[Len(stack) - k + 1] = a.cells[k]
       /\ ~is_array(a) => stack = stack0

C9_Witness ==
  /\ prim = "Unpack"
  /\ Len(stack0) >= 2
  /\ is_array(Operand(1))
  /\ Len(Operand(1).cells) = 3
  /\ Len(stack) = Len(stack0) + 2

\* Repeat's count is a natural number
RepeatCase ==
  /\ prim = "Repeat"
  /\ Len(stack0) >= 3
  /\ as_nat(Operand(3)) # {}

\* f called n times, each time on the current accumulator, the last pushed
RepeatDone ==
  LET n == Operand(3).n
      Acc(k) == IF k = 0 THEN Operand(2) ELSE Last(calls[k].post)
  IN /\ status = "ok"
     /\ Len(calls) = n
     /\ \A k \in 1..n :
          /\ calls[k].f = Operand(1)
          /\ calls[k].pre # <<>>
          /\ Last(calls[k].pre) = Acc(k - 1)
     /\ stack # <<>>
     /\ Last(stack) = Acc(n)

\* a count that is no natural number: the error, and no call
RepeatRefused ==
  (prim = "Repeat" /\ Len(stack0) >= 3 /\ as_nat(Operand(3)) = {}) =>
    /\ status = "err"
    /\ msg = <<"R", "e", "p", "e", "t", "i", "t", "i", "o", "n", "s", " ", "m", "u", "s", "t", " ", "b", "e", " ", "a", " ", "n", "a", "t", "u", "r", "a", "l", " ", "n", "u", "m", "b", "e", "r">>
    /\ calls = <<>>

\* Repeat(Neg, 5, 3) leaves -5 and Repeat(Neg, 5, 2) leaves 5
RepeatExamples ==
  (prim = "Repeat" /\ Len(stack0) >= 3 /\ Operand(1) = Fn("neg") /\ Operand(2) = Num(5)) =>
    /\ Operand(3) = Num(3) => (status = "ok" /\ Last(stack) = Num(-5))
    /\ Operand(3) = Num(2) => (status = "ok" /\ Last(stack) = Num(5))

\* C10 as stated: with a natural count n, f is called exactly n times, each
\* time on the current accumulator, and the final accumulator is pushed;
\* any other count gives the error without a call.
C10_RepeatAsStated ==
  /\ RepeatCase => RepeatDone
  /\ RepeatRefused
  /\ RepeatExamples

\* C10 as amended: the same, whenever Repeat returns Ok; when a call of f
\* errors, or leaves no result to pop, Repeat returns that error at once,
\* having called f at most n times.
C10_RepeatCount ==
  /\ (RepeatCase /\ status = "ok") => RepeatDone
  /\ (RepeatCase /\ status = "err") =>
        /\ calls # <<>>
        /\ Len(calls) <= Operand(3).n
        /\ \A k \in 1..(Len(calls) - 1) : calls[k].ok
  /\ RepeatRefused
  /\ RepeatExamples

C10_Witness ==
  /\ prim = "Repeat"
  /\ Len(stack0) >= 3
  /\ Operand(1) = Fn("neg")
  /\ Operand(2) = Num(5)
  /\ Operand(3) = Num(3)
  /\ Len(calls) = 3
  /\ Last(stack) = Num(-5)

----------------------------------------------------------------------------
(* Call order of Reduce and Fold                                           *)

\* Reduce of a non-empty array
ReduceCase ==
  /\ prim = "Reduce"
  /\ Len(stack0) >= 2
  /\ is_array(Operand(2))
  /\ Operand(2).cells # <<>>

\* Fold of an array
FoldCase ==
  /\ prim = "Fold"
  /\ Len(stack0) >= 3
  /\ is_array(Operand(3))

\* Every call Reduce made: call k is of f, for cell k+1, with that cell
\* directly below the accumulator, which is the first cell and then the
\* result of the call before.
ReduceOrder ==
  LET cells == Operand(2).cells
      Acc(k) == IF k = 0 THEN cells[1] ELSE Last(calls[k].post)
  IN /\ Len(calls) <= Len(cells) - 1
     /\ \A k \in 1..Len(calls) :
          /\ calls[k].f = Operand(1)
          /\ Len(calls[k].pre) >= 2
          /\ calls[k].pre[Len(calls[k].pre)] = Acc(k - 1)
          /\ calls[k].pre[Len(calls[k].pre) - 1] = cells[k + 1]

\* Every call Fold made: call k is of f, for cell k, with the accumulator
\* directly below that cell; the accumulator is the supplied one and then
\* the result of the call before.
FoldOrder ==
  LET cells == Operand(3).cells
      Acc(k) == IF k = 0 THEN Operand(2) ELSE Last(calls[k].post)
  IN /\ Len(calls) <= Len(cells)
     /\ \A k \in 1..Len(calls) :
          /\ calls[k].f = Operand(1)
          /\ Len(calls[k].pre) >= 2
          /\ calls[k].pre[Len(calls[k].pre)] = cells[k]
          /\ calls[k].pre[Len(calls[k].pre) - 1] = Acc(k - 1)

\* the run stopped at a call that errored or left no result to pop
StoppedAtCall ==
  /\ calls # <<>>
  /\ \A k \in 1..(Len(calls) - 1) : calls[k].ok

\* C11 as stated: Reduce and Fold visit the cells left to right, Reduce
\* with the cell directly below the accumulator and Fold with the
\* accumulator directly below the cell; Reduce calls f len-1 times starting
\* from the first cell, Fold len times starting from the supplied acc.
C11_OrderAsStated ==
  /\ ReduceCase => (ReduceOrder /\ Len(calls) = Len(Operand(2).cells) - 1)
  /\ FoldCase => (FoldOrder /\ Len(calls) = Len(Operand(3).cells))

\* C11 as amended: the order holds of every call made; the counts are
\* len-1 and len whenever the run returns Ok, and a run that returns an
\* error stopped at its last call.
C11_ReduceFoldOrder ==
  /\ ReduceCase =>
       /\ ReduceOrder
       /\ status = "ok" =>
            /\ Len(calls) = Len(Operand(2).cells) - 1
            /\ stack # <<>>
            /\ Last(stack) = IF calls = <<>> THEN Operand(2).cells[1]
                             ELSE Last(Last(calls).post)
       /\ status = "err" => StoppedAtCall
  /\ FoldCase =>
       /\ FoldOrder
       /\ status = "ok" =>
            /\ Len(calls) = Len(Operand(3).cells)
            /\ stack # <<>>
            /\ Last(stack) = IF calls = <<>> THEN Operand(2)
                             ELSE Last(Last(calls).post)
       /\ status = "err" => StoppedAtCall

\* Fold of the cells 1, 2, 3 from 0 with sub (top minus next): 1-0 = 1,
\* 2-1 = 1, 3-1 = 2; with the operands the other way round it would be -6
C11_Witness ==
  /\ FoldCase
  /\ Operand(1) = Fn("sub")
  /\ Operand(2) = Num(0)
  /\ Len(Operand(3).cells) = 3
  /\ Len(calls) = 3
  /\ status = "ok"
  /\ Last(stack) = Num(2)

----------------------------------------------------------------------------
(* Call order of Under                                                     *)

\* Under with f on top and g below it
UnderCase ==
  /\ prim = "Under"
  /\ Len(stack0) >= 2

\* C12: Under with f on top and g below it. If either is not a function it
\* returns "Only functions can be inverted" and calls nothing. Otherwise
\* the under-mode inverse of f is obtained before any call, so that an
\* inversion error is returned with nothing called; and then f, g and the
\* inverse are called, in that order and each on the stack the one before
\* left, stopping at the first call that errors.
C12_UnderOrder ==
  UnderCase =>
    LET f == Operand(1)
        g == Operand(2)
        inv == FnInverse(f.id, TRUE)
        want == <<f, g, Fn(CHOOSE h \in inv : TRUE)>>
    IN /\ (~is_function(f) \/ ~is_function(g)) =>
            /\ status = "err"
            /\ msg = MsgOnlyFunctions
            /\ calls = <<>>
       /\ (is_function(f) /\ is_function(g) /\ inv = {}) =>
            /\ status = "err"
            /\ calls = <<>>
       /\ (is_function(f) /\ is_function(g) /\ inv # {}) =>
            /\ Len(calls) \in 1..3
            /\ \A k \in 1..Len(calls) : calls[k].f = want[k]
            /\ calls[1].pre = Under0(2)
            /\ \A k \in 2..Len(calls) : calls[k].pre = calls[k - 1].post
            /\ \A k \in 1..(Len(calls) - 1) : calls[k].ok
            /\ Len(calls) < 3 => ~Last(calls).ok
            /\ (status = "ok") = Last(calls).ok
            /\ stack = Last(calls).post

\* Under(neg, sub) of 5 above 11: neg gives -5, sub (top minus next) gives
\* -5 - 11 = -16, and the inverse of neg gives 16
C12_Witness ==
  /\ UnderCase
  /\ stack0 = <<Num(11), Num(5), Fn("sub"), Fn("neg")>>
  /\ Len(calls) = 3
  /\ calls[1].f = Fn("neg")
  /\ calls[2].f = Fn("sub")
  /\ calls[3].f = Fn("neg")
  /\ status = "ok"
  /\ stack = <<Num(16)>>

----------------------------------------------------------------------------
(* What the code does do where C2 and C3 fail                              *)

\* Try recovers as C2 says whenever the failing f left the values below the
\* two functions in place (it may have pushed above them).
TryRecoveryWhenNothingPopped ==
  ( /\ prim = "Try"
    /\ Len(stack0) >= 2
    /\ is_function(Operand(1))
    /\ Operand(2) = Fn("ident")
    /\ calls # <<>>
    /\ ~calls[1].ok
    /\ Len(calls[1].post) >= Len(stack0) - 2 )
  => /\ status = "ok"
     /\ Len(stack) = Len(stack0) - 2 + 1
     /\ SubSeq(stack, 1, Len(stack0) - 2) = Under0(2)

\* The net stack delta is outputs - args for every non-modifier primitive
\* with both counts given, except Nop, Assert and Use.
ArgsOutputsDeltaElsewhere ==
  prim \notin {"Nop", "Assert", "Use"} => C3_ArgsOutputsDelta

====
